---- MODULE Spec2Model ----
(***************************************************************************)
(* The three Bloom filters of src/data_structures/probabilistic/           *)
(* bloom_filters.rs: BasicBloomFilter<CAPACITY>, SingleBinaryBloomFilter   *)
(* and MultiBinaryBloomFilter, each with the trait's insert and contains.  *)
(*                                                                         *)
(* A behaviour follows the filters one client owns.  The instances share   *)
(* no state, so a client owns either the two single-hash filters (as the   *)
(* capacity-128 test does) or one multi-hash filter; a filter the client   *)
(* never constructed is None and no method can be called on it.            *)
(*                                                                         *)
(* Representation:                                                         *)
(*   [bool; CAPACITY], Vec<u8>, Vec<RandomState> are sequences; Rust index *)
(*     i is position i + 1.                                                *)
(*   u8 and u128 are the set of the positions (0..7, 0..127) of their 1    *)
(*     bits: 0 is {}, | is \cup, & is \cap, == 0 is = {}, > 0 is # {}.     *)
(*   A RandomState is the number of its key pair (its seed).               *)
(*   The SipHash of the standard library is not computed: sip[key][item]   *)
(*     is an arbitrary function, fixed for a behaviour, of the keys that   *)
(*     the client's hashers use.                                           *)
(***************************************************************************)
EXTENDS Integers, Sequences, FiniteSets, TLC

\* ---- bounds ------------------------------------------------------------
MaxItem == 2
MaxHash == 1
MaxCapacity == 3
MaxFilterSize == 10
MaxHashCount == 2
MaxSeed == 2
MaxNode == 2
MaxValue == 1
MaxLen == 4
MaxElem == 2
MaxText == 3
MaxByte == 1
IntBits == 8
MaxChars == 2

\* ---- program constants -------------------------------------------------
\* DefaultHasher::new() is SipHasher13 with the key pair (0, 0).
DefaultKey == 0
\* The width of the fingerprint (u128) and the modulus of mask_128.
FingerprintBits == 128

\* The items a client hashes (the tests use i32).
Items == 1..MaxItem
\* A sample of the u64 values hasher.finish() returns: small values, and
\* FingerprintBits, which wraps to 0 under % 128 and reaches the second
\* byte of a ten-bit filter.
HashValues == (0..MaxHash) \cup {FingerprintBits}
\* The CAPACITY arguments a client instantiates BasicBloomFilter with.
Capacities == (0..MaxCapacity) \cup {FingerprintBits}
\* The arguments a client passes to with_dimensions.
FilterSizes == 0..MaxFilterSize
HashCounts == 0..MaxHashCount
\* The key pairs RandomState::new() can draw.
Seeds == 1..MaxSeed

\* A filter the client did not construct.
None == [none |-> TRUE]

VARIABLES
    basic,      \* the BasicBloomFilter: [CAPACITY, vec], or None
    single,     \* the SingleBinaryBloomFilter: [fingerprint], or None
    multi,      \* the MultiBinaryBloomFilter: [filter_size, bytes, hash_builders], or None
    sip,        \* sip[key][item]: what a hasher built from key returns for item
    inserted,   \* history: inserted.basic, .single, .multi are the items whose insert returned
    last,       \* history: the last call, [filter, op, item, dup, value]
    panicked    \* a call panicked and the thread unwound

VARIABLES
    threads,    \* threads[t]: the call thread t is in the middle of, on the shared filter
    overlapped, \* history: two insert calls were in progress at the same time
    undi,       \* the UnDiGraph: [vertices, edges]
    di,         \* the DiGraph: [vertices, edges]
    graph_last, \* history: the last Graph call, [op, source, target]
    sort_run,   \* a call of quick_sort or merge_sort: its input and what it left
    text_run,   \* a call of is_subsequence or theoretical_rot13: its input and result
    cube_run    \* a call of perfect_cube_binary_search: its input and result

\* The state of the Bloom filters and of their client.
bloomVars == <<basic, single, multi, sip, inserted, last, panicked>>
\* The state of the threads that share a filter.
threadVars == <<threads, overlapped>>
\* The state of the graphs.
graphVars == <<undi, di, graph_last>>
\* The calls of the free functions.
runVars == <<sort_run, text_run, cube_run>>

vars == <<bloomVars, threadVars, graphVars, runVars>>

\* ---- results of a call -------------------------------------------------
\* insert returns the filter it leaves behind, or panics leaving it as it was.
Done(self) == [panic |-> FALSE, self |-> self]
Panic(self) == [panic |-> TRUE, self |-> self]
\* contains returns a bool, or panics.
Return(b) == [panic |-> FALSE, value |-> b]
ContainsPanic == [panic |-> TRUE, value |-> FALSE]

\* ---- u8 arithmetic -----------------------------------------------------
\* 1 << bit_index in u8: the one bit bit_index; bit_index < 8 at both uses,
\* where the shift fits.
Shl1(bit_index) == {bit_index} \cap (0..7)

\* ---- hashing -----------------------------------------------------------
\* item.hash(&mut hasher); hasher.finish() with a DefaultHasher::new().
DefaultHash(item) == sip[DefaultKey][item]
\* builder.build_hasher(); item.hash(&mut hasher); hasher.finish().
BuilderHash(builder, item) == sip[builder][item]

\* ---- BasicBloomFilter<CAPACITY> ------------------------------------------
\* Default::default(): vec: [false; CAPACITY].
BasicBloomFilter_default(CAPACITY) ==
    [CAPACITY |-> CAPACITY, vec |-> [i \in 1..CAPACITY |-> FALSE]]

\* insert with the cell one past the hashed one.
BasicBloomFilter_insert_shifted(self, item) ==
    IF self.CAPACITY = 0 THEN Panic(self)
    ELSE LET idx == (DefaultHash(item) + 1) % self.CAPACITY
         IN  IF idx >= Len(self.vec) THEN Panic(self)
             ELSE Done([self EXCEPT !.vec[idx + 1] = TRUE])

\* insert that flips the cell instead of setting it.
BasicBloomFilter_insert_flip(self, item) ==
    IF self.CAPACITY = 0 THEN Panic(self)
    ELSE LET idx == DefaultHash(item) % self.CAPACITY
         IN  IF idx >= Len(self.vec) THEN Panic(self)
             ELSE Done([self EXCEPT !.vec[idx + 1] = ~@])

\* fn insert: idx = hasher.finish() % CAPACITY (panics when CAPACITY = 0);
\* self.vec[idx] = true (panics when idx is out of range).
BasicBloomFilter_insert(self, item) ==
    IF self.CAPACITY = 0 THEN Panic(self)
    ELSE LET idx == DefaultHash(item) % self.CAPACITY
         IN  IF idx >= Len(self.vec) THEN Panic(self)
             ELSE Done([self EXCEPT !.vec[idx + 1] = TRUE])

\* fn contains: the same idx; returns self.vec[idx].
BasicBloomFilter_contains(self, item) ==
    IF self.CAPACITY = 0 THEN ContainsPanic
    ELSE LET idx == DefaultHash(item) % self.CAPACITY
         IN  IF idx >= Len(self.vec) THEN ContainsPanic
             ELSE Return(self.vec[idx + 1])

\* ---- SingleBinaryBloomFilter -------------------------------------------
\* #[derive(Default)]: fingerprint: 0.
SingleBinaryBloomFilter_default == [fingerprint |-> {}]

\* 2_u128.pow(idx): the one bit idx; idx < 128 at the only call, where the
\* power fits.
Pow2_u128(idx) == {idx} \cap (0..(FingerprintBits - 1))

\* mask_128 reducing modulo one more than the width: idx reaches 128, where
\* 2_u128.pow(idx) does not fit.
mask_128_wide(item) == Pow2_u128(DefaultHash(item) % (FingerprintBits + 1))

\* mask_128 reducing modulo one less than the width.
mask_128_short(item) == Pow2_u128(DefaultHash(item) % (FingerprintBits - 1))

\* fn mask_128: idx = hasher.finish() % 128; 2_u128.pow(idx).  Both callers
\* pass a fresh DefaultHasher::new().
mask_128(item) == Pow2_u128(DefaultHash(item) % FingerprintBits)

\* insert that also sets the bit above the one of the mask.
SingleBinaryBloomFilter_insert_neighbour(self, item) ==
    Done([self EXCEPT !.fingerprint =
             @ \cup mask_128(item)
               \cup {(idx + 1) % FingerprintBits : idx \in mask_128(item)}])

\* fn insert: self.fingerprint |= mask_128(..).
SingleBinaryBloomFilter_insert(self, item) ==
    Done([self EXCEPT !.fingerprint = @ \cup mask_128(item)])

\* fn contains: (self.fingerprint & mask_128(..)) > 0.
SingleBinaryBloomFilter_contains(self, item) ==
    Return((self.fingerprint \cap mask_128(item)) # {})

\* ---- MultiBinaryBloomFilter --------------------------------------------
\* with_dimensions that allocates filter_size / 8 bytes, rounded down.
with_dimensions_floor(filter_size, hash_count, state) ==
    [filter_size   |-> filter_size,
     bytes         |-> [i \in 1..(filter_size \div 8) |-> {}],
     hash_builders |-> [i \in 1..hash_count |-> state]]

\* fn with_dimensions.  state is the value of the one RandomState::new() that
\* vec![RandomState::new(); hash_count] evaluates; the macro clones it into
\* every position.
with_dimensions(filter_size, hash_count, state) ==
    LET bytes_count == filter_size \div 8 + (IF filter_size % 8 > 0 THEN 1 ELSE 0)
    IN  [filter_size   |-> filter_size,
         bytes         |-> [i \in 1..bytes_count |-> {}],
         hash_builders |-> [i \in 1..hash_count |-> state]]

\* byte = 1 << bit_index: the mask stored over the byte.
or_assign_store(byte, bit_index) == Shl1(bit_index)

\* byte ^= 1 << bit_index: the bit toggled.
or_assign_toggle(byte, bit_index) ==
    (byte \ Shl1(bit_index)) \cup (Shl1(bit_index) \ byte)

\* bytes[byte_index] &= 1 << bit_index: the and of the byte and the mask.
or_assign_and(byte, bit_index) == byte \cap Shl1(bit_index)

\* self.bytes[byte_index] |= 1 << bit_index: the new value of the byte.
or_assign(byte, bit_index) == byte \cup Shl1(bit_index)

\* One iteration that reduces the hash modulo the bits of the byte vector,
\* 8 * bytes.len(), instead of filter_size.
insert_step_whole_bytes(self, hash) ==
    IF Len(self.bytes) = 0 THEN Panic(self)
    ELSE LET index      == hash % (8 * Len(self.bytes))
             byte_index == index \div 8
             bit_index  == index % 8
         IN  Done([self EXCEPT !.bytes[byte_index + 1] = or_assign(@, bit_index)])

\* One iteration that also pushes a byte when it writes the last one.
insert_step_growing(self, hash) ==
    IF self.filter_size = 0 THEN Panic(self)
    ELSE LET index      == hash % self.filter_size
             byte_index == index \div 8
             bit_index  == index % 8
         IN  IF byte_index >= Len(self.bytes) THEN Panic(self)
             ELSE LET written == [self EXCEPT !.bytes[byte_index + 1] = or_assign(@, bit_index)]
                  IN  IF byte_index + 1 = Len(self.bytes)
                      THEN Done([written EXCEPT !.bytes = Append(@, {})])
                      ELSE Done(written)

\* One iteration of insert's loop, hash = hasher.finish():
\* index = hash % filter_size (panics when filter_size = 0), byte_index =
\* index / 8, bit_index = index % 8, bytes[byte_index] |= 1 << bit_index
\* (panics when byte_index is out of range).
insert_step(self, hash) ==
    IF self.filter_size = 0 THEN Panic(self)
    ELSE LET index      == hash % self.filter_size
             byte_index == index \div 8
             bit_index  == index % 8
         IN  IF byte_index >= Len(self.bytes) THEN Panic(self)
             ELSE Done([self EXCEPT !.bytes[byte_index + 1] = or_assign(@, bit_index)])

RECURSIVE insert_from(_, _, _)
\* for builder in &self.hash_builders, from position i on; a panic ends it.
insert_from(self, item, i) ==
    IF i > Len(self.hash_builders) THEN Done(self)
    ELSE LET r == insert_step(self, BuilderHash(self.hash_builders[i], item))
         IN  IF r.panic THEN r ELSE insert_from(r.self, item, i + 1)

\* fn insert.
MultiBinaryBloomFilter_insert(self, item) == insert_from(self, item, 1)

\* The test with the bits of a byte counted from the high end.
contains_step_reversed(self, hash) ==
    IF self.filter_size = 0 THEN ContainsPanic
    ELSE LET index      == hash % self.filter_size
             byte_index == index \div 8
             bit_index  == index % 8
         IN  IF byte_index >= Len(self.bytes) THEN ContainsPanic
             ELSE Return((self.bytes[byte_index + 1] \cap Shl1(7 - bit_index)) # {})

\* One iteration of contains's loop: the same index, byte_index and
\* bit_index; FALSE when bytes[byte_index] & (1 << bit_index) == 0.
contains_step(self, hash) ==
    IF self.filter_size = 0 THEN ContainsPanic
    ELSE LET index      == hash % self.filter_size
             byte_index == index \div 8
             bit_index  == index % 8
         IN  IF byte_index >= Len(self.bytes) THEN ContainsPanic
             ELSE Return((self.bytes[byte_index + 1] \cap Shl1(bit_index)) # {})

RECURSIVE contains_from(_, _, _)
\* The loop from position i on: return false at the first bit that is 0,
\* true after the last builder.
contains_from(self, item, i) ==
    IF i > Len(self.hash_builders) THEN Return(TRUE)
    ELSE LET r == contains_step(self, BuilderHash(self.hash_builders[i], item))
         IN  IF r.panic THEN r
             ELSE IF ~r.value THEN Return(FALSE)
             ELSE contains_from(self, item, i + 1)

\* fn contains.
MultiBinaryBloomFilter_contains(self, item) == contains_from(self, item, 1)

\* ---- what a behaviour leaves at rest ------------------------------------
\* The two threads that share a filter.
Threads == {"t1", "t2"}
\* A thread that is in no call.
Idle == [pc |-> "idle", filter |-> "none", op |-> "none", item |-> 0, i |-> 0,
         tmp |-> {}, alone |-> FALSE]
\* No thread shares the filters.
ThreadsAtRest ==
    /\ threads = [t \in Threads |-> Idle]
    /\ overlapped = FALSE

\* UnDiGraph::new() and DiGraph::new(): vertices: HashMap::new(), edges:
\* HashMap::new().  A HashMap is a function of its keys, a HashSet a set.
Graph_new == [vertices |-> <<>>, edges |-> <<>>]
NoGraphCall == [op |-> "none", source |-> 0, target |-> 0]
\* The graphs as constructed, never used.
GraphsAtRest ==
    /\ undi = Graph_new
    /\ di = Graph_new
    /\ graph_last = NoGraphCall

\* No call of a free function.
NoRun == [fn |-> "none"]
RunsAtRest ==
    /\ sort_run = NoRun
    /\ text_run = NoRun
    /\ cube_run = NoRun

\* ---- the client --------------------------------------------------------
\* The keys of the hashers a filter set draws on.
Range(seq) == {seq[i] : i \in 1..Len(seq)}

NoCall == [filter |-> "none", op |-> "none", item |-> 0, dup |-> FALSE, value |-> FALSE]

\* BasicBloomFilter::<CAPACITY>::default() and SingleBinaryBloomFilter::default().
InitSingleHash ==
    /\ \E CAPACITY \in Capacities : basic = BasicBloomFilter_default(CAPACITY)
    /\ single = SingleBinaryBloomFilter_default
    /\ multi = None
    /\ sip \in [{DefaultKey} -> [Items -> HashValues]]

\* MultiBinaryBloomFilter::with_dimensions(filter_size, hash_count).
InitMultiHash ==
    /\ basic = None
    /\ single = None
    /\ \E filter_size \in FilterSizes, hash_count \in HashCounts, state \in Seeds :
          multi = with_dimensions(filter_size, hash_count, state)
    /\ sip \in [Range(multi.hash_builders) -> [Items -> HashValues]]

Init ==
    /\ InitSingleHash \/ InitMultiHash
    /\ inserted = [basic |-> {}, single |-> {}, multi |-> {}]
    /\ last = NoCall
    /\ panicked = FALSE
    /\ ThreadsAtRest
    /\ GraphsAtRest
    /\ RunsAtRest

\* basic.insert(item)
BasicInsert(item) ==
    /\ ~panicked
    /\ basic # None
    /\ \E r \in {BasicBloomFilter_insert(basic, item)} :
           /\ basic' = r.self
           /\ panicked' = r.panic
           /\ inserted' = IF r.panic THEN inserted
                          ELSE [inserted EXCEPT !.basic = @ \cup {item}]
    /\ last' = [filter |-> "basic", op |-> "insert", item |-> item,
                dup |-> item \in inserted.basic, value |-> FALSE]
    /\ UNCHANGED <<single, multi, sip>>
    /\ UNCHANGED <<threadVars, graphVars, runVars>>

\* basic.contains(&item)
BasicContains(item) ==
    /\ ~panicked
    /\ basic # None
    /\ \E r \in {BasicBloomFilter_contains(basic, item)} :
           /\ panicked' = r.panic
           /\ last' = [filter |-> "basic", op |-> "contains", item |-> item,
                       dup |-> FALSE, value |-> r.value]
    /\ UNCHANGED <<basic, single, multi, sip, inserted>>
    /\ UNCHANGED <<threadVars, graphVars, runVars>>

\* single.insert(item)
SingleInsert(item) ==
    /\ ~panicked
    /\ single # None
    /\ \E r \in {SingleBinaryBloomFilter_insert(single, item)} :
           /\ single' = r.self
           /\ panicked' = r.panic
           /\ inserted' = IF r.panic THEN inserted
                          ELSE [inserted EXCEPT !.single = @ \cup {item}]
    /\ last' = [filter |-> "single", op |-> "insert", item |-> item,
                dup |-> item \in inserted.single, value |-> FALSE]
    /\ UNCHANGED <<basic, multi, sip>>
    /\ UNCHANGED <<threadVars, graphVars, runVars>>

\* single.contains(&item)
SingleContains(item) ==
    /\ ~panicked
    /\ single # None
    /\ \E r \in {SingleBinaryBloomFilter_contains(single, item)} :
           /\ panicked' = r.panic
           /\ last' = [filter |-> "single", op |-> "contains", item |-> item,
                       dup |-> FALSE, value |-> r.value]
    /\ UNCHANGED <<basic, single, multi, sip, inserted>>
    /\ UNCHANGED <<threadVars, graphVars, runVars>>

\* multi.insert(item)
MultiInsert(item) ==
    /\ ~panicked
    /\ multi # None
    /\ \E r \in {MultiBinaryBloomFilter_insert(multi, item)} :
           /\ multi' = r.self
           /\ panicked' = r.panic
           /\ inserted' = IF r.panic THEN inserted
                          ELSE [inserted EXCEPT !.multi = @ \cup {item}]
    /\ last' = [filter |-> "multi", op |-> "insert", item |-> item,
                dup |-> item \in inserted.multi, value |-> FALSE]
    /\ UNCHANGED <<basic, single, sip>>
    /\ UNCHANGED <<threadVars, graphVars, runVars>>

\* multi.contains(&item)
MultiContains(item) ==
    /\ ~panicked
    /\ multi # None
    /\ \E r \in {MultiBinaryBloomFilter_contains(multi, item)} :
           /\ panicked' = r.panic
           /\ last' = [filter |-> "multi", op |-> "contains", item |-> item,
                       dup |-> FALSE, value |-> r.value]
    /\ UNCHANGED <<basic, single, multi, sip, inserted>>
    /\ UNCHANGED <<threadVars, graphVars, runVars>>

Next ==
    \/ \E item \in Items : BasicInsert(item)
    \/ \E item \in Items : BasicContains(item)
    \/ \E item \in Items : SingleInsert(item)
    \/ \E item \in Items : SingleContains(item)
    \/ \E item \in Items : MultiInsert(item)
    \/ \E item \in Items : MultiContains(item)

Spec == Init /\ [][Next]_vars

\* ---- properties ---------------------------------------------------------
\* The cells of a BasicBloomFilter that are true, as Rust indices.
BasicCells(f) == {i \in 0..(Len(f.vec) - 1) : f.vec[i + 1]}
\* The logical bits of a MultiBinaryBloomFilter that are 1: bit 8 * byte + offset.
MultiBits(f) == {n \in 0..(8 * Len(f.bytes) - 1) : (n % 8) \in f.bytes[(n \div 8) + 1]}

\* C1: no false negatives for the single-hash filters.  For a
\* BasicBloomFilter of CAPACITY >= 1 and for the SingleBinaryBloomFilter,
\* contains returns true for every item an earlier insert was given, both as
\* the value contains has in the state and as the value a call returned.
C1_NoFalseNegativeSingleHash ==
    /\ (basic # None /\ basic.CAPACITY >= 1) =>
           \A x \in inserted.basic : BasicBloomFilter_contains(basic, x) = Return(TRUE)
    /\ single # None =>
           \A x \in inserted.single : SingleBinaryBloomFilter_contains(single, x) = Return(TRUE)
    /\ (last.op = "contains" /\ last.filter \in {"basic", "single"}
            /\ last.item \in inserted[last.filter]) => last.value

\* C1 witness: both filters hold two items, the basic one has two cells, and
\* a basic contains call on an inserted item has returned true.
C1_Witness ==
    /\ basic # None /\ basic.CAPACITY >= 2
    /\ Cardinality(inserted.basic) >= 2
    /\ Cardinality(inserted.single) >= 2
    /\ last.filter = "basic" /\ last.op = "contains"
    /\ last.item \in inserted.basic /\ last.value

\* C2: negative implies absent for the multi-hash filter.  With filter_size
\* >= 1 and hash_count >= 1, contains is true of every inserted item, and a
\* contains call that returned false was given an item never inserted.
C2_NegativeImpliesAbsent ==
    (multi # None /\ multi.filter_size >= 1 /\ Len(multi.hash_builders) >= 1) =>
        /\ \A x \in inserted.multi : MultiBinaryBloomFilter_contains(multi, x) = Return(TRUE)
        /\ (last.op = "contains" /\ last.filter = "multi" /\ ~panicked /\ ~last.value)
               => last.item \notin inserted.multi

\* C2 witness: a two-byte filter with two hash builders holds an item, and
\* contains has returned false for another.
C2_Witness ==
    /\ multi # None /\ Len(multi.bytes) >= 2 /\ Len(multi.hash_builders) >= 2
    /\ inserted.multi # {}
    /\ last.filter = "multi" /\ last.op = "contains" /\ ~last.value
    /\ ~panicked

\* C3: capacity-128 equivalence.  When a BasicBloomFilter<128> and the
\* SingleBinaryBloomFilter were given the same items, they answer contains
\* alike for every item, and cell i is true exactly when bit i of the
\* fingerprint is 1.
C3_Capacity128Equivalence ==
    (basic # None /\ single # None /\ basic.CAPACITY = FingerprintBits
        /\ inserted.basic = inserted.single) =>
        /\ \A x \in Items :
               BasicBloomFilter_contains(basic, x) = SingleBinaryBloomFilter_contains(single, x)
        /\ BasicCells(basic) = single.fingerprint

\* C3 witness: both filters of width 128 hold the same two items, whose
\* hashes differ and one of which exceeds the width.
C3_Witness ==
    /\ basic # None /\ single # None /\ basic.CAPACITY = FingerprintBits
    /\ inserted.basic = inserted.single
    /\ Cardinality(inserted.basic) >= 2
    /\ \E x \in inserted.basic : DefaultHash(x) >= FingerprintBits
    /\ Cardinality(single.fingerprint) >= 2
    /\ last.op = "contains" /\ last.value

\* C4: the hash builders of a MultiBinaryBloomFilter have pairwise distinct
\* seeds.
C4_DistinctSeeds ==
    multi # None =>
        \A i, j \in 1..Len(multi.hash_builders) :
            i # j => multi.hash_builders[i] # multi.hash_builders[j]

\* C5: with_dimensions creates no filter when filter_size = 0 or hash_count =
\* 0, and no later insert or contains discovers a bad parameter by failing.
C5_RejectsZeroDimensions ==
    multi # None =>
        /\ multi.filter_size >= 1
        /\ Len(multi.hash_builders) >= 1
        /\ ~panicked

\* C6: insert and contains are total: no call on a constructed filter panics.
C6_Total == ~panicked

\* C7: bits are monotone.  Every step that changes a filter keeps the filter
\* and every true cell of vec, 1 bit of fingerprint and 1 bit of bytes it
\* had: no step clears a bit or resets a filter.
C7_Monotone ==
    [][ /\ (basic # None /\ basic' # basic) =>
               (basic' # None /\ BasicCells(basic) \subseteq BasicCells(basic'))
        /\ (single # None /\ single' # single) =>
               (single' # None /\ single.fingerprint \subseteq single'.fingerprint)
        /\ (multi # None /\ multi' # multi) =>
               (multi' # None /\ MultiBits(multi) \subseteq MultiBits(multi')) ]_vars

\* C7 witness: two inserts have set two different bits of a multi-hash
\* filter, the later one after the earlier bit was set.
C7_Witness ==
    /\ multi # None
    /\ Cardinality(MultiBits(multi)) >= 2
    /\ Cardinality(inserted.multi) >= 2
    /\ last.filter = "multi" /\ last.op = "insert" /\ ~last.dup

\* C8: insert is idempotent.  An insert of an item that an earlier insert
\* was given leaves every filter exactly as it was.
C8_Idempotent ==
    [][ (last'.op = "insert" /\ last'.dup) =>
            (basic' = basic /\ single' = single /\ multi' = multi) ]_vars

\* C8 witness: an item was inserted again into a basic filter with a true
\* cell and a false cell.
C8_Witness ==
    /\ basic # None
    /\ last.filter = "basic" /\ last.op = "insert" /\ last.dup
    /\ BasicCells(basic) # {}
    /\ Cardinality(BasicCells(basic)) < basic.CAPACITY

\* C9: MultiBinaryBloomFilter::contains is true exactly when, for every hash
\* builder, the bit at hash_i(item) mod filter_size is 1; that is exactly
\* when insert of the item would leave bytes unchanged.  (With filter_size =
\* 0 and a hash builder, contains returns nothing.)
C9_ContainsIffAllBitsSet ==
    (multi # None /\ (multi.filter_size >= 1 \/ Len(multi.hash_builders) = 0)) =>
        \A x \in Items :
            /\ MultiBinaryBloomFilter_contains(multi, x) =
                   Return(\A i \in 1..Len(multi.hash_builders) :
                              (sip[multi.hash_builders[i]][x] % multi.filter_size)
                                  \in MultiBits(multi))
            /\ MultiBinaryBloomFilter_contains(multi, x).value =
                   (MultiBinaryBloomFilter_insert(multi, x).self.bytes = multi.bytes)

\* C9 witness: with two hash builders and bits set in the second byte,
\* contains has returned false for an item whose bit is 0.
C9_Witness ==
    /\ multi # None /\ Len(multi.hash_builders) >= 2
    /\ \E n \in MultiBits(multi) : n >= 8
    /\ last.filter = "multi" /\ last.op = "contains" /\ ~last.value /\ ~panicked
    /\ \E x \in Items : MultiBinaryBloomFilter_contains(multi, x) = Return(TRUE)

\* C10: the configuration is immutable.  No step changes filter_size, the
\* length of bytes, or the hash builders of the multi-hash filter, nor the
\* CAPACITY or the length of vec of the basic filter.
C10_ConfigImmutable ==
    [][ /\ multi # None =>
               /\ multi' # None
               /\ multi'.filter_size = multi.filter_size
               /\ Len(multi'.bytes) = Len(multi.bytes)
               /\ multi'.hash_builders = multi.hash_builders
        /\ basic # None =>
               /\ basic' # None
               /\ basic'.CAPACITY = basic.CAPACITY
               /\ Len(basic'.vec) = Len(basic.vec) ]_vars

\* C10 witness: an insert has written the last byte of a two-byte multi-hash
\* filter, and its configuration is the one it was built with.
C10_Witness ==
    /\ multi # None /\ multi.filter_size > 8
    /\ Len(multi.bytes) = 2 /\ multi.bytes[2] # {}
    /\ Len(multi.hash_builders) >= 1
    /\ last.filter = "multi" /\ last.op = "insert"

\* C21: the byte-packed layout of MultiBinaryBloomFilter.  bytes holds
\* exactly ceil(filter_size / 8) bytes, all 0 in the filter with_dimensions
\* returns; after insert(item) the bit 1 << (i % 8) of byte i / 8 is 1 for
\* every index i computed for the item, and contains(item) is true exactly
\* when that bit of that byte is 1 for every such i.
C21_BytePackedLayout ==
    multi # None =>
        /\ 8 * Len(multi.bytes) >= multi.filter_size
        /\ 8 * Len(multi.bytes) < multi.filter_size + 8
        /\ last = NoCall => \A k \in 1..Len(multi.bytes) : multi.bytes[k] = {}
        /\ (last.filter = "multi" /\ last.op = "insert" /\ ~panicked) =>
              \A b \in 1..Len(multi.hash_builders) :
                  LET i == BuilderHash(multi.hash_builders[b], last.item) % multi.filter_size
                  IN  (i % 8) \in multi.bytes[(i \div 8) + 1]
        /\ multi.filter_size >= 1 =>
              \A x \in Items :
                  MultiBinaryBloomFilter_contains(multi, x).value =
                      \A b \in 1..Len(multi.hash_builders) :
                          LET i == BuilderHash(multi.hash_builders[b], x) % multi.filter_size
                          IN  multi.bytes[(i \div 8) + 1] \cap Shl1(i % 8) # {}

\* C21 witness: a filter whose size is no multiple of 8 and takes two
\* bytes; the last call, an insert, has left bit 0 of the second byte at 1,
\* and contains is false of another item.
C21_Witness ==
    /\ multi # None
    /\ multi.filter_size % 8 # 0
    /\ Len(multi.bytes) = 2
    /\ last.filter = "multi" /\ last.op = "insert" /\ ~panicked
    /\ 0 \in multi.bytes[2]
    /\ \E x \in Items : ~MultiBinaryBloomFilter_contains(multi, x).value

\* C22: no computed index exceeds filter_size - 1.  For filter_size >= 1
\* every index insert or contains computes for an item is in
\* [0, filter_size) and its byte index is below the length of bytes, so that
\* no call panics; and every bit of bytes at a position filter_size or
\* higher, the unused high bits of the last byte, is 0.
C22_IndexInRange ==
    (multi # None /\ multi.filter_size >= 1) =>
        /\ \A x \in Items, b \in 1..Len(multi.hash_builders) :
              LET index == BuilderHash(multi.hash_builders[b], x) % multi.filter_size
              IN  /\ index >= 0 /\ index < multi.filter_size
                  /\ index \div 8 < Len(multi.bytes)
                  /\ ~insert_step(multi, BuilderHash(multi.hash_builders[b], x)).panic
                  /\ ~contains_step(multi, BuilderHash(multi.hash_builders[b], x)).panic
        /\ ~panicked
        /\ \A n \in MultiBits(multi) : n < multi.filter_size

\* C22 witness: a filter whose last byte has unused high bits; inserts have
\* set its highest logical bit, filter_size - 1, and another bit.
C22_Witness ==
    /\ multi # None
    /\ multi.filter_size % 8 # 0
    /\ inserted.multi # {}
    /\ (multi.filter_size - 1) \in MultiBits(multi)
    /\ \E n \in MultiBits(multi) : n < multi.filter_size - 1

\* C23: SingleBinaryBloomFilter uses a single-bit mask.  For every item
\* mask_128 is 2^idx with idx = hash(item) mod 128 in [0, 127]: one bit, a
\* bit of u128; insert leaves fingerprint | mask, and contains is true
\* exactly when fingerprint & mask is not 0, as the value of the operation
\* in the state and as the value the last call returned.
C23_SingleBitMask ==
    single # None =>
        /\ \A x \in Items :
              LET idx == DefaultHash(x) % 128
              IN  /\ idx >= 0 /\ idx <= 127
                  /\ mask_128(x) = {idx}
                  /\ Cardinality(mask_128(x)) = 1
                  /\ mask_128(x) \subseteq 0..(FingerprintBits - 1)
                  /\ SingleBinaryBloomFilter_insert(single, x) =
                         Done([fingerprint |-> single.fingerprint \cup {idx}])
                  /\ SingleBinaryBloomFilter_contains(single, x) =
                         Return(idx \in single.fingerprint)
        /\ (last.filter = "single" /\ last.op = "insert") =>
              (DefaultHash(last.item) % 128) \in single.fingerprint
        /\ (last.filter = "single" /\ last.op = "contains") =>
              last.value = ((DefaultHash(last.item) % 128) \in single.fingerprint)

\* C23 witness: fingerprint has two bits at 1, one of them for an item whose
\* hash is 128 or more, and the last call, a contains, returned true.
C23_Witness ==
    /\ single # None
    /\ Cardinality(single.fingerprint) = 2
    /\ \E x \in inserted.single : DefaultHash(x) >= FingerprintBits
    /\ last.filter = "single" /\ last.op = "contains" /\ last.value

\* The bits of b that differ from the bits of a.
Changed(a, b) == (a \ b) \cup (b \ a)

\* C24: the frame of insert.  A step changes cells of vec only if it is an
\* insert into the BasicBloomFilter, and then only the cell hash(item) mod
\* CAPACITY; bits of fingerprint only if it is an insert into the
\* SingleBinaryBloomFilter, and then only the bit hash(item) mod 128; bits of
\* bytes only if it is an insert into the MultiBinaryBloomFilter, and then
\* only bits at the indices hash_i(item) mod filter_size, at most hash_count
\* of them.  Every other cell and bit keeps its value.
C24_InsertFrame ==
    [][ /\ basic' # basic =>
              /\ last'.filter = "basic" /\ last'.op = "insert"
              /\ Changed(BasicCells(basic), BasicCells(basic'))
                     \subseteq {DefaultHash(last'.item) % basic.CAPACITY}
        /\ single' # single =>
              /\ last'.filter = "single" /\ last'.op = "insert"
              /\ Changed(single.fingerprint, single'.fingerprint)
                     \subseteq {DefaultHash(last'.item) % 128}
        /\ multi' # multi =>
              /\ last'.filter = "multi" /\ last'.op = "insert"
              /\ Changed(MultiBits(multi), MultiBits(multi'))
                     \subseteq {BuilderHash(multi.hash_builders[b], last'.item) % multi.filter_size :
                                   b \in 1..Len(multi.hash_builders)}
              /\ Cardinality(Changed(MultiBits(multi), MultiBits(multi')))
                     <= Len(multi.hash_builders) ]_vars

\* C24 witness: the last call, the insert of a new item into a
\* MultiBinaryBloomFilter with two hash builders, has set the bit of the
\* item, and a bit an earlier insert set at another index is still 1.
C24_Witness ==
    /\ multi # None
    /\ multi.filter_size >= 1
    /\ Len(multi.hash_builders) = 2
    /\ last.filter = "multi" /\ last.op = "insert" /\ ~last.dup /\ ~panicked
    /\ LET indices == {BuilderHash(multi.hash_builders[b], last.item) % multi.filter_size :
                          b \in 1..Len(multi.hash_builders)}
       IN  /\ indices \subseteq MultiBits(multi)
           /\ MultiBits(multi) \ indices # {}

\* ---- threads that share a filter ----------------------------------------
\* Every builder of a filter is a clone of one RandomState: one key pair
\* stands for whichever was drawn.
SharedSeed == CHOOSE state \in Seeds : TRUE

\* The filters on which every call returns: CAPACITY > 0, and a bit array
\* of MaxFilterSize bits, in which the sampled hashes reach two bits of the
\* first byte and one bit of the second.
InitShared ==
    /\ \/ /\ \E CAPACITY \in Capacities \ {0} : basic = BasicBloomFilter_default(CAPACITY)
          /\ single = SingleBinaryBloomFilter_default
          /\ multi = None
          /\ sip \in [{DefaultKey} -> [Items -> HashValues]]
       \/ /\ basic = None
          /\ single = None
          /\ \E hash_count \in HashCounts :
                multi = with_dimensions(MaxFilterSize, hash_count, SharedSeed)
          /\ sip \in [Range(multi.hash_builders) -> [Items -> HashValues]]
    /\ inserted = [basic |-> {}, single |-> {}, multi |-> {}]
    /\ last = NoCall
    /\ panicked = FALSE
    /\ ThreadsAtRest
    /\ GraphsAtRest
    /\ RunsAtRest

\* The filters a thread can call: the ones the client constructed.
Shared == {f \in {"basic", "single", "multi"} :
              \/ f = "basic" /\ basic # None
              \/ f = "single" /\ single # None
              \/ f = "multi" /\ multi # None}

\* What the filter named f answers to contains(&item), the call run alone.
ContainsAlone(f, item) ==
    IF f = "basic" THEN BasicBloomFilter_contains(basic, item).value
    ELSE IF f = "single" THEN SingleBinaryBloomFilter_contains(single, item).value
    ELSE MultiBinaryBloomFilter_contains(multi, item).value

\* contains(&mut self) that clears the bit array it reads.
contains_borrow_clearing(self) ==
    IF self # None /\ "bytes" \in DOMAIN self
    THEN [self EXCEPT !.bytes = [i \in DOMAIN self.bytes |-> {}]]
    ELSE self

\* pub fn contains(&self, ..): the filter behind the shared borrow after a
\* step of the call.
contains_borrow(self) == self

\* Thread t calls contains(&item) on a shared filter.
ReaderCall(t, item) ==
    /\ threads[t] = Idle
    /\ \E f \in Shared :
          threads' = [threads EXCEPT ![t] =
                         [pc |-> "test", filter |-> f, op |-> "contains",
                          item |-> item, i |-> 1, tmp |-> {},
                          alone |-> ContainsAlone(f, item)]]
    /\ UNCHANGED <<bloomVars, overlapped, graphVars, runVars>>

\* Thread t returns value from its call.
ReaderReturn(t, value) ==
    /\ threads' = [threads EXCEPT ![t] = Idle]
    /\ last' = [NoCall EXCEPT !.op = "contains", !.value = value]

\* One step of thread t's contains: the whole read of BasicBloomFilter and
\* of SingleBinaryBloomFilter, one iteration of MultiBinaryBloomFilter's loop.
ReaderStep(t) ==
    /\ threads[t].pc = "test"
    /\ LET c == threads[t]
       IN  IF c.filter = "basic"
           THEN ReaderReturn(t, BasicBloomFilter_contains(basic, c.item).value)
           ELSE IF c.filter = "single"
           THEN ReaderReturn(t, SingleBinaryBloomFilter_contains(single, c.item).value)
           ELSE IF c.i > Len(multi.hash_builders)
           THEN ReaderReturn(t, TRUE)
           ELSE IF ~contains_step(multi, BuilderHash(multi.hash_builders[c.i], c.item)).value
           THEN ReaderReturn(t, FALSE)
           ELSE /\ threads' = [threads EXCEPT ![t].i = c.i + 1]
                /\ last' = last
    /\ basic' = contains_borrow(basic)
    /\ single' = contains_borrow(single)
    /\ multi' = contains_borrow(multi)
    /\ UNCHANGED <<sip, inserted, panicked, overlapped, graphVars, runVars>>

\* filter.insert(item) by the owner of the filter, while no thread is inside
\* a call.
QuietInsert(f, item) ==
    /\ \A t \in Threads : threads[t] = Idle
    /\ \/ /\ f = "basic"
          /\ basic' = BasicBloomFilter_insert(basic, item).self
          /\ UNCHANGED <<single, multi>>
       \/ /\ f = "single"
          /\ single' = SingleBinaryBloomFilter_insert(single, item).self
          /\ UNCHANGED <<basic, multi>>
       \/ /\ f = "multi"
          /\ multi' = MultiBinaryBloomFilter_insert(multi, item).self
          /\ UNCHANGED <<basic, single>>
    /\ UNCHANGED <<sip, inserted, last, panicked, threadVars, graphVars, runVars>>

NextReaders ==
    \/ \E t \in Threads, item \in Items : ReaderCall(t, item)
    \/ \E t \in Threads : ReaderStep(t)
    \/ \E f \in Shared, item \in Items : QuietInsert(f, item)

SpecReaders == InitShared /\ [][NextReaders]_vars

\* C11: contains is a pure read: a step of a contains call leaves the three
\* filters as they are, and a call that no insert overlaps returns, however
\* the steps of the other contains calls interleave with its own, the value
\* the call gives when run alone.
C11_ContainsPureRead ==
    [][\A t \in Threads :
          (threads[t].op = "contains" /\ threads'[t] # threads[t]) =>
              /\ basic' = basic /\ single' = single /\ multi' = multi
              /\ threads'[t] = Idle => last'.value = threads[t].alone]_vars

\* Both threads are inside contains calls on a MultiBinaryBloomFilter that
\* holds an item, one of them past its first iteration.
C11_Witness ==
    /\ multi # None
    /\ MultiBits(multi) # {}
    /\ \A t \in Threads : threads[t].op = "contains"
    /\ \E t \in Threads : threads[t].i > 1

\* ---- inserts that overlap -------------------------------------------------
\* The read half of self.bytes[byte_index] |= 1 << bit_index: the byte the
\* iteration for hash loads.
load_byte(self, hash) == self.bytes[((hash % self.filter_size) \div 8) + 1]

\* The write half: the filter with the byte the iteration for hash stores,
\* computed from the value tmp that was loaded.
store_byte(self, hash, tmp) ==
    LET index      == hash % self.filter_size
        byte_index == index \div 8
    IN  insert_step([self EXCEPT !.bytes[byte_index + 1] = tmp], hash).self

\* Thread t calls insert(item) on a SingleBinaryBloomFilter or a
\* MultiBinaryBloomFilter the other thread may be inserting into.
WriterCall(t, item) ==
    /\ threads[t] = Idle
    /\ \E f \in Shared \ {"basic"} :
          threads' = [threads EXCEPT ![t] =
                         [Idle EXCEPT !.pc = "load", !.filter = f, !.op = "insert",
                                      !.item = item, !.i = 1]]
    /\ overlapped' = (overlapped \/ \E u \in Threads : threads[u].op = "insert")
    /\ UNCHANGED <<bloomVars, graphVars, runVars>>

\* Thread t's insert returns.
WriterReturn(t) ==
    /\ threads' = [threads EXCEPT ![t] = Idle]
    /\ inserted' = [inserted EXCEPT ![threads[t].filter] = @ \cup {threads[t].item}]

\* Thread t reads the operand of |=: fingerprint, or the byte of the
\* iteration it is in; after the last builder the call returns.
WriterLoad(t) ==
    /\ threads[t].pc = "load"
    /\ LET c == threads[t]
       IN  IF c.filter = "single"
           THEN /\ threads' = [threads EXCEPT ![t].pc = "store",
                                              ![t].tmp = single.fingerprint]
                /\ inserted' = inserted
           ELSE IF c.i > Len(multi.hash_builders)
           THEN WriterReturn(t)
           ELSE /\ threads' = [threads EXCEPT ![t].pc = "store", ![t].tmp =
                                 load_byte(multi, BuilderHash(multi.hash_builders[c.i], c.item))]
                /\ inserted' = inserted
    /\ UNCHANGED <<basic, single, multi, sip, last, panicked, overlapped,
                   graphVars, runVars>>

\* Thread t writes the result of |= computed from what it read.
WriterStore(t) ==
    /\ threads[t].pc = "store"
    /\ LET c == threads[t]
       IN  IF c.filter = "single"
           THEN /\ single' = SingleBinaryBloomFilter_insert([single EXCEPT !.fingerprint = c.tmp],
                                                            c.item).self
                /\ multi' = multi
                /\ WriterReturn(t)
           ELSE /\ multi' = store_byte(multi, BuilderHash(multi.hash_builders[c.i], c.item), c.tmp)
                /\ single' = single
                /\ threads' = [threads EXCEPT ![t].pc = "load", ![t].i = c.i + 1,
                                              ![t].tmp = {}]
                /\ inserted' = inserted
    /\ UNCHANGED <<basic, sip, last, panicked, overlapped, graphVars, runVars>>

NextWriters ==
    \/ \E t \in Threads, item \in Items : WriterCall(t, item)
    \/ \E t \in Threads : WriterLoad(t)
    \/ \E t \in Threads : WriterStore(t)

SpecWriters == InitShared /\ [][NextWriters]_vars

\* An item whose insert returned and that contains denies.
LostInsert ==
    \/ single # None /\ \E item \in inserted.single :
                            ~SingleBinaryBloomFilter_contains(single, item).value
    \/ multi # None /\ \E item \in inserted.multi :
                           ~MultiBinaryBloomFilter_contains(multi, item).value

\* C12: insert needs external serialization.  As long as no two insert calls
\* were in progress at the same time, contains is true of every item whose
\* insert returned; the state the witness describes, reached by two inserts
\* whose loads and stores of the same byte (of fingerprint) interleave, has
\* lost a bit of an inserted item.
C12_SerializedInsertsKeepBits == ~overlapped => ~LostInsert

\* Two inserts overlapped, both returned, and contains is false of an item
\* one of them inserted into the MultiBinaryBloomFilter.
C12_Witness ==
    /\ overlapped
    /\ \A t \in Threads : threads[t] = Idle
    /\ multi # None
    /\ \E item \in inserted.multi : ~MultiBinaryBloomFilter_contains(multi, item).value

\* The same on the SingleBinaryBloomFilter.
C12_WitnessSingle ==
    /\ overlapped
    /\ \A t \in Threads : threads[t] = Idle
    /\ single # None
    /\ \E item \in inserted.single : ~SingleBinaryBloomFilter_contains(single, item).value

\* ---- UnDiGraph and DiGraph -----------------------------------------------
\* The nodes and the vertex values a client names.
Nodes == 1..MaxNode
Values == 1..MaxValue

\* HashMap::insert(key, value) and HashMap::remove(&key) on a map.
HashMap_insert(map, key, value) ==
    [k \in DOMAIN map \cup {key} |-> IF k = key THEN value ELSE map[k]]
HashMap_remove(map, key) == [k \in DOMAIN map \ {key} |-> map[k]]

\* An adjacent that looks for (source, target) only.
UnDiGraph_adjacent_forward(self, source, target) ==
    \E vert_source \in DOMAIN self.edges :
        vert_source = source /\ target \in self.edges[vert_source]

\* UnDiGraph::adjacent: true at the first entry (vert_source, vert_target)
\* of edges that is (source, target) or (target, source).
UnDiGraph_adjacent(self, source, target) ==
    \E vert_source \in DOMAIN self.edges \cap {source, target} :
        \E vert_target \in self.edges[vert_source] :
            \/ vert_source = source /\ vert_target = target
            \/ vert_source = target /\ vert_target = source

\* DiGraph::adjacent: true at the first entry that is (source, target).
DiGraph_adjacent(self, source, target) ==
    \E vert_source \in DOMAIN self.edges \cap {source, target} :
        \E vert_target \in self.edges[vert_source] :
            vert_source = source /\ vert_target = target

\* add_vertex, remove_vertex, add_edge and remove_edge: the same code in
\* impl Graph for UnDiGraph and in impl Graph for DiGraph.
add_vertex(self, node, value) ==
    [self EXCEPT !.vertices = HashMap_insert(@, node, value)]

remove_vertex(self, node) ==
    [self EXCEPT !.vertices = HashMap_remove(@, node)]

add_edge(self, source, target) ==
    LET edges == IF source \in DOMAIN self.edges THEN self.edges
                 ELSE HashMap_insert(self.edges, source, {})
    IN  [self EXCEPT !.edges = [edges EXCEPT ![source] = @ \cup {target}]]

remove_edge(self, source, target) ==
    IF source \in DOMAIN self.edges
    THEN [self EXCEPT !.edges[source] = @ \ {target}]
    ELSE self

\* The client makes each call on an UnDiGraph and on a DiGraph.
AddVertex(node, value) ==
    /\ undi' = add_vertex(undi, node, value)
    /\ di' = add_vertex(di, node, value)
    /\ graph_last' = [NoGraphCall EXCEPT !.op = "add_vertex", !.source = node]
    /\ UNCHANGED <<bloomVars, threadVars, runVars>>

RemoveVertex(node) ==
    /\ undi' = remove_vertex(undi, node)
    /\ di' = remove_vertex(di, node)
    /\ graph_last' = [NoGraphCall EXCEPT !.op = "remove_vertex", !.source = node]
    /\ UNCHANGED <<bloomVars, threadVars, runVars>>

AddEdge(source, target) ==
    /\ undi' = add_edge(undi, source, target)
    /\ di' = add_edge(di, source, target)
    /\ graph_last' = [op |-> "add_edge", source |-> source, target |-> target]
    /\ UNCHANGED <<bloomVars, threadVars, runVars>>

RemoveEdge(source, target) ==
    /\ undi' = remove_edge(undi, source, target)
    /\ di' = remove_edge(di, source, target)
    /\ graph_last' = [op |-> "remove_edge", source |-> source, target |-> target]
    /\ UNCHANGED <<bloomVars, threadVars, runVars>>

\* No filter constructed, no call made on one.
BloomAtRest ==
    /\ basic = None /\ single = None /\ multi = None
    /\ sip = <<>>
    /\ inserted = [basic |-> {}, single |-> {}, multi |-> {}]
    /\ last = NoCall
    /\ panicked = FALSE

InitGraph ==
    /\ GraphsAtRest
    /\ BloomAtRest
    /\ ThreadsAtRest
    /\ RunsAtRest

NextGraph ==
    \/ \E node \in Nodes, value \in Values : AddVertex(node, value)
    \/ \E node \in Nodes : RemoveVertex(node)
    \/ \E source \in Nodes, target \in Nodes : AddEdge(source, target)
    \/ \E source \in Nodes, target \in Nodes : RemoveEdge(source, target)

SpecGraph == InitGraph /\ [][NextGraph]_vars

\* C14: the adjacency of an UnDiGraph is symmetric in every state
\* add_vertex, add_edge, remove_edge and remove_vertex reach, and after
\* add_edge(a, b) both adjacent(a, b) and adjacent(b, a) hold.
C14_AdjacencySymmetric ==
    /\ \A a \in Nodes, b \in Nodes :
          UnDiGraph_adjacent(undi, a, b) <=> UnDiGraph_adjacent(undi, b, a)
    /\ graph_last.op = "add_edge" =>
          /\ UnDiGraph_adjacent(undi, graph_last.source, graph_last.target)
          /\ UnDiGraph_adjacent(undi, graph_last.target, graph_last.source)

\* add_edge(a, b) with a # b was the last call, on a graph that holds no
\* entry (b, a).
C14_Witness ==
    /\ graph_last.op = "add_edge"
    /\ graph_last.source # graph_last.target
    /\ ~DiGraph_adjacent(undi, graph_last.target, graph_last.source)

\* C15: after remove_edge(s, t) the edge is gone: on the UnDiGraph neither
\* adjacent(s, t) nor adjacent(t, s) holds, whichever of add_edge(s, t) and
\* add_edge(t, s) created the edge; on the DiGraph adjacent(s, t) is false.
C15_RemoveEdgeRemoves ==
    graph_last.op = "remove_edge" =>
        /\ ~UnDiGraph_adjacent(undi, graph_last.source, graph_last.target)
        /\ ~UnDiGraph_adjacent(undi, graph_last.target, graph_last.source)
        /\ ~DiGraph_adjacent(di, graph_last.source, graph_last.target)

\* The part of C15 about the DiGraph alone.
C15_DiGraphRemoveEdgeRemoves ==
    graph_last.op = "remove_edge" =>
        ~DiGraph_adjacent(di, graph_last.source, graph_last.target)

\* ---- quick_sort ----------------------------------------------------------
\* The slices a caller passes to a sort: up to MaxLen elements of 0..MaxElem.
Elems == 0..MaxElem
Slices == UNION {[1..n -> Elems] : n \in 0..MaxLen}

\* is_sorted and have_same_elements of the tests.
is_sorted(arr) == \A k \in 1..(Len(arr) - 1) : arr[k] <= arr[k + 1]
Count(arr, x) == Cardinality({k \in 1..Len(arr) : arr[k] = x})
have_same_elements(a, b) ==
    /\ Len(a) = Len(b)
    /\ \A x \in Elems : Count(a, x) = Count(b, x)

\* arr[k], k a usize: in range or a panic.
InRange(arr, k) == k >= 0 /\ k < Len(arr)

\* A swap that copies arr[b] over arr[a] and leaves arr[b].
swap_copy(arr, a, b) == [arr EXCEPT ![a + 1] = arr[b + 1]]

\* arr.swap(a, b).
swap(arr, a, b) == [arr EXCEPT ![a + 1] = arr[b + 1], ![b + 1] = arr[a + 1]]

\* quick_sort(arr) was called and has not run yet.
QuickSortCalled(arr) ==
    [fn |-> "quick_sort", input |-> arr, arr |-> arr, pc |-> "start",
     stack |-> <<>>, lo |-> 0, hi |-> 0, i |-> 0, j |-> 0, panic |-> FALSE]

\* The run after an index out of range or a usize subtraction below 0.
SortPanic(run) == [run EXCEPT !.pc = "done", !.panic = TRUE]

\* quick_sort: if len > 1 { _quick_sort(arr, 0, len - 1) }.
QsStart ==
    /\ sort_run.fn = "quick_sort"
    /\ sort_run.pc = "start"
    /\ sort_run' = IF Len(sort_run.arr) > 1
                   THEN [sort_run EXCEPT !.pc = "call",
                            !.stack = <<[lo |-> 0, hi |-> Len(sort_run.arr) - 1]>>]
                   ELSE [sort_run EXCEPT !.pc = "done"]
    /\ UNCHANGED <<bloomVars, threadVars, graphVars, text_run, cube_run>>

\* _quick_sort(arr, lo, hi), the next call that is pending: if lo < hi,
\* partition starts with pivot = hi, i = lo, j = hi.
QsCall ==
    /\ sort_run.fn = "quick_sort"
    /\ sort_run.pc = "call"
    /\ sort_run' =
          IF sort_run.stack = <<>>
          THEN [sort_run EXCEPT !.pc = "done", !.lo = 0, !.hi = 0, !.i = 0, !.j = 0]
          ELSE LET frame == Head(sort_run.stack)
               IN  IF frame.lo < frame.hi
                   THEN [sort_run EXCEPT !.stack = Tail(@), !.pc = "while_i",
                            !.lo = frame.lo, !.hi = frame.hi,
                            !.i = frame.lo, !.j = frame.hi]
                   ELSE [sort_run EXCEPT !.stack = Tail(@)]
    /\ UNCHANGED <<bloomVars, threadVars, graphVars, text_run, cube_run>>

\* while arr[i] < arr[pivot] { i += 1 }: one test of the condition.
QsWhileI ==
    /\ sort_run.fn = "quick_sort"
    /\ sort_run.pc = "while_i"
    /\ LET arr == sort_run.arr
           i   == sort_run.i
           pivot == sort_run.hi
       IN  sort_run' =
             IF ~InRange(arr, i) \/ ~InRange(arr, pivot) THEN SortPanic(sort_run)
             ELSE IF arr[i + 1] < arr[pivot + 1] THEN [sort_run EXCEPT !.i = i + 1]
             ELSE [sort_run EXCEPT !.pc = "while_j"]
    /\ UNCHANGED <<bloomVars, threadVars, graphVars, text_run, cube_run>>

\* while j > 0 && arr[j - 1] > arr[pivot] { j -= 1 }: one test.
QsWhileJ ==
    /\ sort_run.fn = "quick_sort"
    /\ sort_run.pc = "while_j"
    /\ LET arr == sort_run.arr
           j   == sort_run.j
           pivot == sort_run.hi
       IN  sort_run' =
             IF j > 0
             THEN IF ~InRange(arr, j - 1) \/ ~InRange(arr, pivot) THEN SortPanic(sort_run)
                  ELSE IF arr[j] > arr[pivot + 1] THEN [sort_run EXCEPT !.j = j - 1]
                  ELSE [sort_run EXCEPT !.pc = "branch"]
             ELSE [sort_run EXCEPT !.pc = "branch"]
    /\ UNCHANGED <<bloomVars, threadVars, graphVars, text_run, cube_run>>

\* The end of partition and what _quick_sort does with its result p:
\* arr.swap(i, pivot); if p > 0 { _quick_sort(arr, lo, p - 1) };
\* _quick_sort(arr, p + 1, hi).
partition_break(run) ==
    LET p == run.i
    IN  IF ~InRange(run.arr, p) \/ ~InRange(run.arr, run.hi) THEN SortPanic(run)
        ELSE [run EXCEPT !.arr = swap(run.arr, p, run.hi),
                         !.pc = "call",
                         !.stack = (IF p > 0 THEN <<[lo |-> run.lo, hi |-> p - 1]>>
                                    ELSE <<>>)
                                   \o <<[lo |-> p + 1, hi |-> run.hi]>> \o @]

\* if j == 0 || i >= j - 1 { break } else if arr[i] == arr[j - 1]
\* { i += 1; j -= 1 } else { arr.swap(i, j - 1) }.
QsBranch ==
    /\ sort_run.fn = "quick_sort"
    /\ sort_run.pc = "branch"
    /\ LET arr == sort_run.arr
           i   == sort_run.i
           j   == sort_run.j
       IN  sort_run' =
             IF j = 0 \/ i >= j - 1 THEN partition_break(sort_run)
             ELSE IF ~InRange(arr, i) \/ ~InRange(arr, j - 1) THEN SortPanic(sort_run)
             ELSE IF arr[i + 1] = arr[j]
             THEN [sort_run EXCEPT !.i = i + 1, !.j = j - 1, !.pc = "while_i"]
             ELSE [sort_run EXCEPT !.arr = swap(arr, i, j - 1), !.pc = "while_i"]
    /\ UNCHANGED <<bloomVars, threadVars, graphVars, text_run, cube_run>>

InitQuickSort ==
    /\ \E arr \in Slices : sort_run = QuickSortCalled(arr)
    /\ text_run = NoRun
    /\ cube_run = NoRun
    /\ BloomAtRest
    /\ ThreadsAtRest
    /\ GraphsAtRest

NextQuickSort ==
    \/ QsStart
    \/ QsCall
    \/ QsWhileI
    \/ QsWhileJ
    \/ QsBranch

\* The call runs on a thread that is scheduled until it returns.
SpecQuickSort == InitQuickSort /\ [][NextQuickSort]_vars /\ WF_vars(NextQuickSort)

\* C16: quick_sort is correct on every slice: no index leaves the slice and
\* no usize subtraction goes below 0 (no panic), the call returns, and when
\* it has returned the slice is sorted and a permutation of the input.
C16_QuickSortCorrect ==
    /\ [](/\ ~sort_run.panic
          /\ sort_run.pc = "done" =>
                /\ is_sorted(sort_run.arr)
                /\ have_same_elements(sort_run.arr, sort_run.input))
    /\ <>(sort_run.pc = "done")

\* quick_sort returned from a slice of MaxLen elements that was not sorted
\* and holds an element twice.
C16_Witness ==
    /\ sort_run.fn = "quick_sort"
    /\ sort_run.pc = "done"
    /\ Len(sort_run.input) = MaxLen
    /\ ~is_sorted(sort_run.input)
    /\ \E x \in Elems : Count(sort_run.input, x) >= 2

\* ---- merge_sort ----------------------------------------------------------
\* An element of the buffer that was never written.
Uninit == -1

\* A closure that answers a > b.
less_greater(a, b) == a > b

\* The closure merge_sort passes: |a, b| a.lt(b).
less(a, b) == a < b

\* merge_sort(slice) was called and has not run yet.  v is the sub-slice
\* arr[base .. base + len) of the call in progress, l.begin and r.begin are
\* lb and rb, l.end is middle and r.end is len; top counts from buf.
MergeSortCalled(arr) ==
    [fn |-> "merge_sort", input |-> arr, arr |-> arr, pc |-> "start",
     stack |-> <<>>, base |-> 0, len |-> 0, middle |-> 0, lb |-> 0, rb |-> 0,
     top |-> 0, buf |-> <<>>, panic |-> FALSE, past |-> FALSE]

\* unsafe fn push: copy data to *top and advance top; a write at or beyond
\* the capacity of buf is outside the allocation.
push(run, data) ==
    IF run.top >= Len(run.buf)
    THEN [run EXCEPT !.pc = "done", !.past = TRUE]
    ELSE [run EXCEPT !.buf[run.top + 1] = data, !.top = @ + 1]

\* push(&mut top, &v[k]) with the bounds check of v[k].
push_v(run, k) ==
    IF ~(k >= 0 /\ k < run.len) THEN SortPanic(run)
    ELSE push(run, run.arr[run.base + k + 1])

\* merge_sort_cmp: let mut buf = Vec::with_capacity(v.len());
\* sort_range(v, buf.as_mut_ptr(), &mut less).
MsStart ==
    /\ sort_run.fn = "merge_sort"
    /\ sort_run.pc = "start"
    /\ sort_run' = [sort_run EXCEPT
                       !.pc = "call",
                       !.buf = [k \in 1..Len(sort_run.arr) |-> Uninit],
                       !.stack = <<[fn |-> "sort_range", base |-> 0,
                                   len |-> Len(sort_run.arr), middle |-> 0]>>]
    /\ UNCHANGED <<bloomVars, threadVars, graphVars, text_run, cube_run>>

\* sort_range(v, buf, less): return if v.len() <= 1, else the two calls on
\* v.split_at_mut(middle) and then merge; merge: l, r and top set up.
MsCall ==
    /\ sort_run.fn = "merge_sort"
    /\ sort_run.pc = "call"
    /\ sort_run' =
          IF sort_run.stack = <<>>
          THEN [sort_run EXCEPT !.pc = "done", !.base = 0, !.len = 0, !.middle = 0,
                                !.lb = 0, !.rb = 0, !.top = 0]
          ELSE LET frame == Head(sort_run.stack)
                   middle == frame.len \div 2
               IN  IF frame.fn = "merge"
                   THEN [sort_run EXCEPT !.stack = Tail(@), !.pc = "while",
                            !.base = frame.base, !.len = frame.len,
                            !.middle = frame.middle,
                            !.lb = 0, !.rb = frame.middle, !.top = 0]
                   ELSE IF frame.len <= 1
                   THEN [sort_run EXCEPT !.stack = Tail(@)]
                   ELSE [sort_run EXCEPT !.stack =
                            <<[fn |-> "sort_range", base |-> frame.base,
                               len |-> middle, middle |-> 0],
                              [fn |-> "sort_range", base |-> frame.base + middle,
                               len |-> frame.len - middle, middle |-> 0],
                              [fn |-> "merge", base |-> frame.base,
                               len |-> frame.len, middle |-> middle]>> \o Tail(@)]
    /\ UNCHANGED <<bloomVars, threadVars, graphVars, text_run, cube_run>>

\* while l.begin < l.end && r.begin < r.end: one iteration.
MsWhile ==
    /\ sort_run.fn = "merge_sort"
    /\ sort_run.pc = "while"
    /\ LET run == sort_run
       IN  sort_run' =
             IF run.lb < run.middle /\ run.rb < run.len
             THEN IF less(run.arr[run.base + run.lb + 1], run.arr[run.base + run.rb + 1])
                  THEN [push_v(run, run.lb) EXCEPT !.lb = @ + 1]
                  ELSE [push_v(run, run.rb) EXCEPT !.rb = @ + 1]
             ELSE [run EXCEPT !.pc = "for_l"]
    /\ UNCHANGED <<bloomVars, threadVars, graphVars, text_run, cube_run>>

\* for i in l.begin..l.end: one iteration.
MsForL ==
    /\ sort_run.fn = "merge_sort"
    /\ sort_run.pc = "for_l"
    /\ sort_run' = IF sort_run.lb < sort_run.middle
                   THEN [push_v(sort_run, sort_run.lb) EXCEPT !.lb = @ + 1]
                   ELSE [sort_run EXCEPT !.pc = "for_r"]
    /\ UNCHANGED <<bloomVars, threadVars, graphVars, text_run, cube_run>>

\* for i in r.begin..r.end: one iteration.
MsForR ==
    /\ sort_run.fn = "merge_sort"
    /\ sort_run.pc = "for_r"
    /\ sort_run' = IF sort_run.rb < sort_run.len
                   THEN [push_v(sort_run, sort_run.rb) EXCEPT !.rb = @ + 1]
                   ELSE [sort_run EXCEPT !.pc = "copy"]
    /\ UNCHANGED <<bloomVars, threadVars, graphVars, text_run, cube_run>>

\* std::ptr::copy_nonoverlapping(buf, v.as_mut_ptr(), v.len()).
MsCopy ==
    /\ sort_run.fn = "merge_sort"
    /\ sort_run.pc = "copy"
    /\ LET run == sort_run
       IN  sort_run' =
             IF run.len > Len(run.buf)
             THEN [run EXCEPT !.pc = "done", !.past = TRUE]
             ELSE [run EXCEPT !.pc = "call",
                      !.arr = [k \in 1..Len(run.arr) |->
                                 IF k > run.base /\ k <= run.base + run.len
                                 THEN run.buf[k - run.base] ELSE run.arr[k]]]
    /\ UNCHANGED <<bloomVars, threadVars, graphVars, text_run, cube_run>>

InitMergeSort ==
    /\ \E arr \in Slices : sort_run = MergeSortCalled(arr)
    /\ text_run = NoRun
    /\ cube_run = NoRun
    /\ BloomAtRest
    /\ ThreadsAtRest
    /\ GraphsAtRest

NextMergeSort ==
    \/ MsStart
    \/ MsCall
    \/ MsWhile
    \/ MsForL
    \/ MsForR
    \/ MsCopy

SpecMergeSort == InitMergeSort /\ [][NextMergeSort]_vars

\* C17: merge_sort leaves the slice sorted and a permutation of the input;
\* each merge has written exactly v.len() elements to the buffer when it
\* copies back, and no write lands at or beyond the capacity of the buffer,
\* the length of the top-level slice.
C17_MergeSortCorrect ==
    /\ ~sort_run.panic
    /\ ~sort_run.past
    /\ sort_run.top <= Len(sort_run.input)
    /\ sort_run.pc = "copy" => sort_run.top = sort_run.len
    /\ sort_run.pc = "done" =>
          /\ is_sorted(sort_run.arr)
          /\ have_same_elements(sort_run.arr, sort_run.input)

\* merge_sort returned from a slice of MaxLen elements that was not sorted
\* and holds an element twice.
C17_Witness ==
    /\ sort_run.fn = "merge_sort"
    /\ sort_run.pc = "done"
    /\ Len(sort_run.input) = MaxLen
    /\ ~is_sorted(sort_run.input)
    /\ \E x \in Elems : Count(sort_run.input, x) >= 2

\* ---- is_subsequence ------------------------------------------------------
\* The byte strings s.as_bytes() and t.as_bytes(): up to MaxText bytes of
\* 0..MaxByte.
Bytes == 0..MaxByte
ByteStrings == UNION {[1..n -> Bytes] : n \in 0..MaxText}

\* t with the bytes at the positions outside keep deleted.
DeleteOutside(t, keep) ==
    LET kept[k \in 0..Len(t)] ==
            IF k = 0 THEN <<>>
            ELSE IF k \in keep THEN Append(kept[k - 1], t[k])
            ELSE kept[k - 1]
    IN  kept[Len(t)]

\* s is formed from t by deleting some (can be none) of the bytes.
Subsequence(s, t) == \E keep \in SUBSET (1..Len(t)) : DeleteOutside(t, keep) = s

\* A loop body that advances j only when the bytes differ.
subsequence_advance_skipping(s, t, i, j) ==
    IF s[i + 1] = t[j + 1] THEN [i |-> i + 1, j |-> j] ELSE [i |-> i, j |-> j + 1]

\* if s[i] == t[j] { i += 1 }; j += 1.
subsequence_advance(s, t, i, j) ==
    [i |-> IF s[i + 1] = t[j + 1] THEN i + 1 ELSE i, j |-> j + 1]

\* is_subsequence(s, t) was called: m = s.len(), n = t.len(), i = 0, j = 0.
IsSubsequenceCalled(s, t) ==
    [fn |-> "is_subsequence", s |-> s, t |-> t, i |-> 0, j |-> 0,
     pc |-> "while", result |-> FALSE]

\* while i < m && j < n: one iteration.
SubseqWhile ==
    /\ text_run.fn = "is_subsequence"
    /\ text_run.pc = "while"
    /\ text_run.i < Len(text_run.s) /\ text_run.j < Len(text_run.t)
    /\ \E a \in {subsequence_advance(text_run.s, text_run.t, text_run.i, text_run.j)} :
          text_run' = [text_run EXCEPT !.i = a.i, !.j = a.j]
    /\ UNCHANGED <<bloomVars, threadVars, graphVars, sort_run, cube_run>>

\* The loop is left: if i == m { true } else { false }.
SubseqReturn ==
    /\ text_run.fn = "is_subsequence"
    /\ text_run.pc = "while"
    /\ ~(text_run.i < Len(text_run.s) /\ text_run.j < Len(text_run.t))
    /\ text_run' = [text_run EXCEPT !.pc = "done",
                                    !.result = (text_run.i = Len(text_run.s))]
    /\ UNCHANGED <<bloomVars, threadVars, graphVars, sort_run, cube_run>>

InitSubsequence ==
    /\ \E s \in ByteStrings, t \in ByteStrings : text_run = IsSubsequenceCalled(s, t)
    /\ sort_run = NoRun
    /\ cube_run = NoRun
    /\ BloomAtRest
    /\ ThreadsAtRest
    /\ GraphsAtRest

NextSubsequence ==
    \/ SubseqWhile
    \/ SubseqReturn

\* The call runs on a thread that is scheduled until it returns.
SpecSubsequence ==
    InitSubsequence /\ [][NextSubsequence]_vars /\ WF_vars(NextSubsequence)

\* C18: is_subsequence(s, t) returns, and returns true exactly when s is
\* formed from t by deleting bytes.
C18_SubsequenceIff ==
    /\ [](text_run.pc = "done" =>
              (text_run.result <=> Subsequence(text_run.s, text_run.t)))
    /\ <>(text_run.pc = "done")

\* The call returned true for an s of two bytes or more that is no prefix
\* of t.
C18_Witness ==
    /\ text_run.fn = "is_subsequence"
    /\ text_run.pc = "done"
    /\ text_run.result
    /\ Len(text_run.s) >= 2
    /\ SubSeq(text_run.t, 1, Len(text_run.s)) # text_run.s

\* The call returned false for a non-empty s each of whose bytes occurs in t.
C18_WitnessFalse ==
    /\ text_run.fn = "is_subsequence"
    /\ text_run.pc = "done"
    /\ ~text_run.result
    /\ \A k \in 1..Len(text_run.s) : \E n \in 1..Len(text_run.t) :
          text_run.t[n] = text_run.s[k]

\* ---- perfect_cube_binary_search -------------------------------------------
\* The signed integers of IntBits bits stand for i64: the products of
\* mid * mid * mid leave them as they leave i64, from mid = n / 2 on.
MinInt == -(2 ^ (IntBits - 1))
MaxInt == 2 ^ (IntBits - 1) - 1
Ints == MinInt..MaxInt

\* The result of an operation fits the type.
Fits(x) == x >= MinInt /\ x <= MaxInt
\* The two's complement value an operation leaves when overflow checks are off.
Wrap(x) == ((x - MinInt) % (2 ^ IntBits)) + MinInt
\* x / 2 of a signed integer: rounded towards zero.
Half(x) == IF x >= 0 THEN x \div 2 ELSE -((-x) \div 2)

\* n is the cube of an integer.
IsPerfectCube(n) == \E k \in 0..MaxInt : k * k * k = n

\* perfect_cube_binary_search(n) was called, in a build with or without
\* overflow checks.
CubeCalled(n, overflow_checks) ==
    [fn |-> "perfect_cube_binary_search", n |-> n, overflow_checks |-> overflow_checks,
     pc |-> "start", left |-> 0, right |-> 0, result |-> FALSE,
     overflowed |-> FALSE, panic |-> FALSE]

\* if n < 0 { return false }; left = 0; right = n.abs().
CubeStart ==
    /\ cube_run.fn = "perfect_cube_binary_search"
    /\ cube_run.pc = "start"
    /\ cube_run' = IF cube_run.n < 0
                   THEN [cube_run EXCEPT !.pc = "done", !.result = FALSE]
                   ELSE [cube_run EXCEPT !.pc = "while", !.left = 0, !.right = cube_run.n]
    /\ UNCHANGED <<bloomVars, threadVars, graphVars, sort_run, text_run>>

\* One iteration of while left <= right, every operation wrapped.  The
\* fields: what the iteration leaves, whether mid * mid * mid left the type,
\* whether any operation did.
cube_iteration(n, left, right) ==
    LET diff  == right - left
        mid0  == left + Half(Wrap(diff))
        mid   == Wrap(mid0)
        sq    == mid * mid
        cube0 == Wrap(sq) * mid
        cube  == Wrap(cube0)
        found == cube = n
        lower == cube < n
        next  == IF lower THEN mid + 1 ELSE mid - 1
    IN  [found |-> found,
         left  |-> IF ~found /\ lower THEN Wrap(next) ELSE left,
         right |-> IF ~found /\ ~lower THEN Wrap(next) ELSE right,
         mul_overflow |-> ~Fits(sq) \/ ~Fits(cube0),
         overflow |-> \/ ~Fits(diff) \/ ~Fits(mid0) \/ ~Fits(sq) \/ ~Fits(cube0)
                      \/ (~found /\ ~Fits(next))]

\* while left <= right: one iteration; an overflow panics in a build with
\* overflow checks and wraps in a build without.
CubeWhile ==
    /\ cube_run.fn = "perfect_cube_binary_search"
    /\ cube_run.pc = "while"
    /\ cube_run.left <= cube_run.right
    /\ \E it \in {cube_iteration(cube_run.n, cube_run.left, cube_run.right)} :
          cube_run' =
            IF it.overflow /\ cube_run.overflow_checks
            THEN [cube_run EXCEPT !.pc = "done", !.panic = TRUE,
                                  !.overflowed = it.mul_overflow]
            ELSE IF it.found
            THEN [cube_run EXCEPT !.pc = "done", !.result = TRUE,
                                  !.overflowed = @ \/ it.mul_overflow]
            ELSE [cube_run EXCEPT !.left = it.left, !.right = it.right,
                                  !.overflowed = @ \/ it.mul_overflow]
    /\ UNCHANGED <<bloomVars, threadVars, graphVars, sort_run, text_run>>

\* The loop is left with left > right: false.
CubeReturn ==
    /\ cube_run.fn = "perfect_cube_binary_search"
    /\ cube_run.pc = "while"
    /\ cube_run.left > cube_run.right
    /\ cube_run' = [cube_run EXCEPT !.pc = "done", !.result = FALSE]
    /\ UNCHANGED <<bloomVars, threadVars, graphVars, sort_run, text_run>>

InitCube ==
    /\ \E n \in Ints, overflow_checks \in BOOLEAN :
          cube_run = CubeCalled(n, overflow_checks)
    /\ sort_run = NoRun
    /\ text_run = NoRun
    /\ BloomAtRest
    /\ ThreadsAtRest
    /\ GraphsAtRest

NextCube ==
    \/ CubeStart
    \/ CubeWhile
    \/ CubeReturn

\* The call runs on a thread that is scheduled until it returns.
SpecCube == InitCube /\ [][NextCube]_vars /\ WF_vars(NextCube)

\* C19: perfect_cube_binary_search(n) is false for negative n; for n >= 0
\* it returns true exactly when n is the cube of an integer, and
\* mid * mid * mid never leaves the signed integer type.
C19_CubeSearchCorrect ==
    /\ ~cube_run.overflowed
    /\ ~cube_run.panic
    /\ cube_run.pc = "done" =>
          (cube_run.result <=> (cube_run.n >= 0 /\ IsPerfectCube(cube_run.n)))

\* The part of C19 that holds: the result for negative n, and the result
\* for the n whose search multiplies without overflow.
C19_CubeSearchWithoutOverflow ==
    (cube_run.pc = "done" /\ ~cube_run.overflowed /\ ~cube_run.panic) =>
        (cube_run.result <=> (cube_run.n >= 0 /\ IsPerfectCube(cube_run.n)))

\* Every call returns or panics.
C19_CubeSearchEnds == <>(cube_run.pc = "done")

\* ---- theoretical_rot13 ---------------------------------------------------
\* The chars of a text, by code point: the lowercase ASCII letters, and a
\* sample of the others: '0', 'A', 'N', 'Z', the neighbours of 'a' and 'z',
\* U+00E9 (whose low byte is no letter), U+0161 (whose low byte is 'a') and
\* U+1F600.
Lowercase == 97..122
Chars == Lowercase \cup {48, 65, 78, 90, 96, 123, 233, 353, 128512}
Texts == UNION {[1..n -> Chars] : n \in 0..MaxChars}

\* c as u8: the low byte of the code point.
as_u8(c) == c % 256

\* The arm that is commented out: ((c as u8) + 13) as char.
rot13_char_unwrapped(c) ==
    IF c \in Lowercase THEN (as_u8(c) + 13) % 256 ELSE c

\* The closure of map: for c.is_ascii_lowercase(), pos = c as u8 - 'a' as u8,
\* npos = (pos + 13) % 26, (npos + 'a' as u8) as char; any other c itself.
rot13_char(c) ==
    IF c \in Lowercase
    THEN LET pos  == as_u8(c) - 97
             npos == (pos + 13) % 26
         IN  (npos + 97) % 256
    ELSE c

\* theoretical_rot13(text) was called: the iterator is at the first char.
\* pass counts the calls: the client passes the result of the first call to
\* a second one.
Rot13Called(text, input, pass) ==
    [fn |-> "theoretical_rot13", text |-> text, input |-> input, pass |-> pass,
     out |-> <<>>, pc |-> "map"]

\* chars().map(..).collect(): the next char is mapped and collected.
Rot13Map ==
    /\ text_run.fn = "theoretical_rot13"
    /\ text_run.pc = "map"
    /\ Len(text_run.out) < Len(text_run.input)
    /\ text_run' = [text_run EXCEPT !.out =
                       Append(@, rot13_char(text_run.input[Len(text_run.out) + 1]))]
    /\ UNCHANGED <<bloomVars, threadVars, graphVars, sort_run, cube_run>>

\* The iterator is exhausted: the call returns the collected String.
Rot13Return ==
    /\ text_run.fn = "theoretical_rot13"
    /\ text_run.pc = "map"
    /\ Len(text_run.out) = Len(text_run.input)
    /\ text_run' = [text_run EXCEPT !.pc = "done"]
    /\ UNCHANGED <<bloomVars, threadVars, graphVars, sort_run, cube_run>>

\* theoretical_rot13(&theoretical_rot13(text)): the second call, on what the
\* first returned.
Rot13Again ==
    /\ text_run.fn = "theoretical_rot13"
    /\ text_run.pc = "done"
    /\ text_run.pass = 1
    /\ text_run' = Rot13Called(text_run.text, text_run.out, 2)
    /\ UNCHANGED <<bloomVars, threadVars, graphVars, sort_run, cube_run>>

InitRot13 ==
    /\ \E text \in Texts : text_run = Rot13Called(text, text, 1)
    /\ sort_run = NoRun
    /\ cube_run = NoRun
    /\ BloomAtRest
    /\ ThreadsAtRest
    /\ GraphsAtRest

NextRot13 ==
    \/ Rot13Map
    \/ Rot13Return
    \/ Rot13Again

SpecRot13 == InitRot13 /\ [][NextRot13]_vars

\* C20: theoretical_rot13 touches only the lowercase ASCII letters and is an
\* involution: in what a call returns, a lowercase letter stands 13 places
\* further in the alphabet, modulo 26, every other char is unchanged, each
\* in the place it had; the second call returns the original text.
C20_Rot13Involution ==
    text_run.pc = "done" =>
        /\ Len(text_run.out) = Len(text_run.input)
        /\ \A k \in 1..Len(text_run.input) :
              LET c == text_run.input[k]
              IN  IF c \in Lowercase
                  THEN /\ text_run.out[k] \in Lowercase
                       /\ (text_run.out[k] - c) % 26 = 13
                  ELSE text_run.out[k] = c
        /\ text_run.pass = 2 => text_run.out = text_run.text

\* The second call returned, on a text of MaxChars chars that holds a
\* letter of the second half of the alphabet and a char that is no
\* lowercase ASCII letter.
C20_Witness ==
    /\ text_run.fn = "theoretical_rot13"
    /\ text_run.pc = "done"
    /\ text_run.pass = 2
    /\ Len(text_run.text) = MaxChars
    /\ \E k \in 1..Len(text_run.text) : text_run.text[k] \in 110..122
    /\ \E k \in 1..Len(text_run.text) : text_run.text[k] \notin Lowercase

====
